---- MODULE Spec2Model ----
(***************************************************************************)
(* Lloyd's k-means of src/src/general/kmeans.rs (macro impl_kmeans, the    *)
(* same code for f32 and f64).                                             *)
(*                                                                         *)
(* A floating point value is a record [kind, n, d]: kind = "fin" is the    *)
(* rational n/d in lowest terms with d > 0, kind = "inf" is an infinity of *)
(* sign n, kind = "nan" is not-a-number.  A result whose magnitude exceeds *)
(* MaxFinite overflows to an infinity, as IEEE 754 arithmetic does beyond  *)
(* the largest finite value of the type; rounding is not modelled.         *)
(* Datasets hold finite coordinates.  Cluster ids are 0-based as in the    *)
(* code; sequences are 1-based, so the centroid of cluster id c is         *)
(* centroids[c + 1].                                                       *)
(***************************************************************************)
EXTENDS Integers, Sequences, FiniteSets

VARIABLES xs, k, max_iter, pc, centroids, clustering, new_clustering,
          count_iter, result, hist, n_recompute, touched

vars == <<xs, k, max_iter, pc, centroids, clustering, new_clustering,
          count_iter, result, hist, n_recompute, touched>>

(* ------------------------------ bounds -------------------------------- *)
MaxN == 4
MaxK == 3
MaxIter == 2
IterCap == 6
MaxFinite == 200

(* ------------------------ floating point values ------------------------ *)
Abs(a) == IF a < 0 THEN -a ELSE a

Min(a, b) == IF a < b THEN a ELSE b

RECURSIVE GCD(_, _)
GCD(a, b) == IF b = 0 THEN a ELSE GCD(b, a % b)

NaN == [kind |-> "nan", n |-> 0, d |-> 1]

INFINITY == [kind |-> "inf", n |-> 1, d |-> 1]

NEG_INFINITY == [kind |-> "inf", n |-> -1, d |-> 1]

\* the value of the rational n/d, d # 0: in lowest terms with a positive
\* denominator, or an infinity when its magnitude exceeds MaxFinite
Fin(n, d) ==
    LET g == GCD(Abs(n), Abs(d))
        s == IF d < 0 THEN -1 ELSE 1
    IN  IF Abs(n) > MaxFinite * Abs(d)
        THEN (IF s * n > 0 THEN INFINITY ELSE NEG_INFINITY)
        ELSE [kind |-> "fin", n |-> (s * n) \div g, d |-> (s * d) \div g]

Lit(i) == [kind |-> "fin", n |-> i, d |-> 1]

Zero == Lit(0)

IsNaN(a) == a.kind = "nan"

IsFinite(a) == a.kind = "fin"

Sign(a) == IF a.n > 0 THEN 1 ELSE IF a.n < 0 THEN -1 ELSE 0

FNeg(a) == IF a.kind = "nan" THEN NaN ELSE [a EXCEPT !.n = -a.n]

FAdd(a, b) ==
    IF a.kind = "nan" \/ b.kind = "nan" THEN NaN
    ELSE IF a.kind = "inf" /\ b.kind = "inf" THEN (IF a.n = b.n THEN a ELSE NaN)
    ELSE IF a.kind = "inf" THEN a
    ELSE IF b.kind = "inf" THEN b
    ELSE Fin(a.n * b.d + b.n * a.d, a.d * b.d)

FSub(a, b) == FAdd(a, FNeg(b))

FMul(a, b) ==
    IF a.kind = "nan" \/ b.kind = "nan" THEN NaN
    ELSE IF a.kind = "inf" \/ b.kind = "inf"
         THEN (IF Sign(a) * Sign(b) = 0 THEN NaN
               ELSE IF Sign(a) * Sign(b) > 0 THEN INFINITY ELSE NEG_INFINITY)
    ELSE Fin(a.n * b.n, a.d * b.d)

\* x.powi(2)
FPowi2(a) == FMul(a, a)

FDiv(a, b) ==
    IF a.kind = "nan" \/ b.kind = "nan" THEN NaN
    ELSE IF a.kind = "inf" /\ b.kind = "inf" THEN NaN
    ELSE IF a.kind = "inf"
         THEN (IF Sign(b) < 0 THEN FNeg(a) ELSE a)
    ELSE IF b.kind = "inf" THEN Zero
    ELSE IF b.n = 0
         THEN (IF a.n = 0 THEN NaN
               ELSE IF a.n > 0 THEN INFINITY ELSE NEG_INFINITY)
    ELSE Fin(a.n * b.d, a.d * b.n)

\* a < b of IEEE 754: false as soon as one side is not-a-number
FLt(a, b) ==
    IF a.kind = "nan" \/ b.kind = "nan" THEN FALSE
    ELSE IF a.kind = "inf" THEN a.n < 0 /\ ~(b.kind = "inf" /\ b.n < 0)
    ELSE IF b.kind = "inf" THEN b.n > 0
    ELSE a.n * b.d < b.n * a.d

(* ------------------------------ distance ------------------------------ *)
RECURSIVE distanceFold(_, _, _, _)
distanceFold(x, y, i, dist) ==
    IF i > Min(Len(x), Len(y)) THEN dist
    ELSE distanceFold(x, y, i + 1, FAdd(dist, FPowi2(FSub(x[i], y[i]))))

distance(x, y) == distanceFold(x, y, 1, Zero)

(* ------------------------- nearest_centroids -------------------------- *)
\* the comparison of line 27
closer(dist, min_dist) == FLt(dist, min_dist)

\* the index enumerate() gives to the centroid at (1-based) position j
enumerate_from_one(j) == j

enumerate_ix(j) == j - 1

\* the fold of lines 23-33 from position j on; acc is (min_ix, min_dist)
RECURSIVE argminFold(_, _, _, _)
argminFold(xi, cs, j, acc) ==
    IF j > Len(cs) THEN acc
    ELSE LET dist == distance(xi, cs[j])
         IN  argminFold(xi, cs, j + 1,
                        IF closer(dist, acc.min_dist)
                        THEN [min_ix |-> enumerate_ix(j), min_dist |-> dist]
                        ELSE acc)

argmin(xi, cs) == argminFold(xi, cs, 1, [min_ix |-> 0, min_dist |-> INFINITY]).min_ix

nearest_centroids(data, cs) == [i \in 1..Len(data) |-> argmin(data[i], cs)]

(* ------------------------ recompute_centroids ------------------------- *)
\* line 61: one coordinate of the centroid, the sum divided by the count
mean_biased(c_j, n_cluster) == FDiv(c_j, FAdd(n_cluster, Lit(1)))

mean_coord(c_j, n_cluster) == FDiv(c_j, n_cluster)

\* lines 53-60: the sweep over zip(xs, clustering) from position i on;
\* acc is (centroid, n_cluster)
RECURSIVE sweep(_, _, _, _, _)
sweep(data, zs, cluster_ix, i, acc) ==
    IF i > Min(Len(data), Len(zs)) THEN acc
    ELSE sweep(data, zs, cluster_ix, i + 1,
               IF zs[i] = cluster_ix
               THEN [centroid  |-> [j \in 1..Len(acc.centroid) |->
                                      IF j <= Len(data[i])
                                      THEN FAdd(acc.centroid[j], data[i][j])
                                      ELSE acc.centroid[j]],
                     n_cluster |-> FAdd(acc.n_cluster, Lit(1))]
               ELSE acc)

recompute_centroids(data, zs, kk) ==
    LET ndims == Len(data[1])
    IN  [c \in 1..kk |->
           LET acc == sweep(data, zs, c - 1, 1,
                            [centroid |-> [j \in 1..ndims |-> Zero], n_cluster |-> Zero])
           IN  [j \in 1..ndims |-> mean_coord(acc.centroid[j], acc.n_cluster)]]

(* ------------------------------- kmeans ------------------------------- *)
None == [some |-> FALSE, v |-> <<>>]

Some(v) == [some |-> TRUE, v |-> v]

NoLimit == [some |-> FALSE, v |-> 0]

\* line 73
invalid_args_no_zero(data, kk) == Len(data) < kk

invalid_args(data, kk) == Len(data) < kk \/ kk = 0

\* line 82: the dataset index (0-based) of seed j
seed_index_first(j, n_per_cluster) == j

seed_index(j, n_per_cluster) == j * n_per_cluster

\* line 88
loop_cond_le(limit, count) == ~limit.some \/ count <= limit.v

loop_cond(limit, count) == ~limit.some \/ count < limit.v

\* lines 93-96: zip(new_clustering, clustering).all(za == zb)
converged_any(new, old) ==
    \E i \in 1..Min(Len(new), Len(old)) : new[i] = old[i]

converged_ne(new, old) ==
    \A i \in 1..Min(Len(new), Len(old)) : new[i] # old[i]

converged(new, old) ==
    \A i \in 1..Min(Len(new), Len(old)) : new[i] = old[i]

(* ------------------------------- inputs ------------------------------- *)
\* a finite coordinate so large that the sum of two of them overflows
Huge == (MaxFinite \div 4) * 3

\* the points datasets are built from: one-dimensional points over Coord,
\* two-dimensional points whose first coordinate is 0 or Huge
Coord == {0, 1, 2, 5}

Points1 == {<<Lit(a)>> : a \in Coord}

Points2 == {<<Lit(a), Lit(b)>> : a \in {0, Huge}, b \in 0..1}

Datasets ==
    UNION {[1..n -> Points1] : n \in 0..MaxN} \cup
    UNION {[1..n -> Points2] : n \in 1..MaxN}

Limits == {NoLimit} \cup {[some |-> TRUE, v |-> m] : m \in 0..MaxIter}

\* no call is in progress
Init ==
    /\ xs = <<>>
    /\ k = 0
    /\ max_iter = NoLimit
    /\ pc = "idle"
    /\ centroids = <<>>
    /\ clustering = <<>>
    /\ new_clustering = <<>>
    /\ count_iter = 0
    /\ result = None
    /\ hist = <<>>
    /\ n_recompute = 0
    /\ touched = FALSE

\* lines 68-72: a caller enters kmeans(xs, k, max_iter)
Call ==
    /\ pc = "idle"
    /\ xs' \in Datasets
    /\ k' \in 0..MaxK
    /\ max_iter' \in Limits
    /\ pc' = "start"
    /\ UNCHANGED <<centroids, clustering, new_clustering, count_iter, result,
                   hist, n_recompute, touched>>

\* lines 73-75
Reject ==
    /\ pc = "start"
    /\ invalid_args(xs, k)
    /\ pc' = "done"
    /\ result' = None
    /\ UNCHANGED <<xs, k, max_iter, centroids, clustering, new_clustering,
                   count_iter, hist, n_recompute, touched>>

\* lines 80-86; dividing by k = 0 and indexing xs out of range panic
Seed ==
    /\ pc = "start"
    /\ ~invalid_args(xs, k)
    /\ IF k = 0 \/ \E j \in 0..(k - 1) : seed_index(j, Len(xs) \div k) >= Len(xs)
       THEN /\ pc' = "panic"
            /\ touched' = (k # 0)
            /\ UNCHANGED <<centroids, clustering, hist>>
       ELSE /\ centroids' = [j \in 1..k |-> xs[seed_index(j - 1, Len(xs) \div k) + 1]]
            /\ clustering' = nearest_centroids(xs, centroids')
            /\ hist' = <<clustering'>>
            /\ touched' = TRUE
            /\ pc' = "loop"
    /\ count_iter' = 0
    /\ UNCHANGED <<xs, k, max_iter, new_clustering, result, n_recompute>>

\* lines 88-105 and 107: one execution of the loop body; it either finds the
\* clustering unchanged, breaks and returns, or adopts the new clustering
Iterate ==
    /\ pc = "loop"
    /\ loop_cond(max_iter, count_iter)
    /\ count_iter < IterCap
    /\ centroids' = recompute_centroids(xs, clustering, k)
    /\ new_clustering' = nearest_centroids(xs, centroids')
    /\ n_recompute' = n_recompute + 1
    /\ hist' = Append(hist, new_clustering')
    /\ IF converged(new_clustering', clustering)
       THEN /\ pc' = "done"
            /\ result' = Some(clustering)
            /\ UNCHANGED <<clustering, count_iter>>
       ELSE /\ clustering' = new_clustering'
            /\ count_iter' = count_iter + 1
            /\ UNCHANGED <<pc, result>>
    /\ UNCHANGED <<xs, k, max_iter, touched>>

\* lines 88 and 107: the iteration bound is reached
Exhaust ==
    /\ pc = "loop"
    /\ ~loop_cond(max_iter, count_iter)
    /\ pc' = "done"
    /\ result' = Some(clustering)
    /\ UNCHANGED <<xs, k, max_iter, centroids, clustering, new_clustering,
                   count_iter, hist, n_recompute, touched>>

Next == Call \/ Reject \/ Seed \/ Iterate \/ Exhaust

Spec == Init /\ [][Next]_vars

(* ------------------------------- claims -------------------------------- *)
N == Len(xs)

ValidArgs == k >= 1 /\ N >= k

ClusterIds == 0..(k - 1)

Running == pc \in {"loop", "done"}

\* no coordinate of the dataset is Huge: on such data no operation of the
\* call overflows, so the arithmetic of the call is exact
Exact == \A i \in 1..N : \A j \in 1..Len(xs[i]) : xs[i][j] # Lit(Huge)

InRange(c) == Len(c) = N /\ \A i \in 1..N : c[i] \in ClusterIds

Members(c, id) == {i \in 1..Len(c) : c[i] = id}

Empty(c, id) == Members(c, id) = {}

AllNaN(centroid) == \A j \in 1..Len(centroid) : IsNaN(centroid[j])

\* one further iteration done by hand reproduces c
FixedPoint(c) == nearest_centroids(xs, recompute_centroids(xs, c, k)) = c

\* the number of executions of the loop body so far
Bodies == Len(hist) - 1

\* the call returned out of the break of line 99
StoppedByConvergence == pc = "done" /\ result.some /\ Bodies = count_iter + 1

\* C1: with k = 0 or fewer than k points the call returns None, never
\* panics and never reads a point of xs
C1_InvalidReturnsNone ==
    (k = 0 \/ N < k) =>
        /\ pc \in {"idle", "start", "done"}
        /\ ~touched
        /\ hist = <<>>
        /\ pc = "done" => result = None

C1_Witness == pc = "done" /\ k = 0 /\ N > 0 /\ result = None

\* C2: every clustering the driver holds (initial, each new_clustering, the
\* returned one) has length N and values in 0..k-1, NaN centroids included
C2_ClusteringInRange ==
    (ValidArgs /\ pc \notin {"idle", "start"}) =>
        /\ Running
        /\ InRange(clustering)
        /\ \A i \in 1..Len(hist) : InRange(hist[i])
        /\ Bodies >= 1 => InRange(new_clustering)
        /\ pc = "done" => result.some /\ InRange(result.v)

C2_Witness ==
    /\ pc = "done" /\ result.some /\ Bodies >= 2
    /\ \E c \in 1..k : AllNaN(centroids[c])
    /\ InRange(result.v)

\* squared distance between the points of indices i and j
SqDist(i, j) == distance(xs[i], xs[j])

\* the splits of the dataset into two non-empty blobs
Blobs == {b \in [1..N -> {"A", "B"}] : \E i, j \in 1..N : b[i] = "A" /\ b[j] = "B"}

WellSeparated(b) ==
    \A i, j \in 1..N :
        b[i] = b[j] =>
            \A p, q \in 1..N :
                b[p] # b[q] => FLt(SqDist(i, j), SqDist(p, q))

Separates(c, b) == \A i, j \in 1..N : (b[i] = b[j]) <=> (c[i] = c[j])

SeedsApart(b) == b[1] # b[(N \div 2) + 1]

\* C3 as stated: two well-separated blobs, in any order, are told apart by
\* kmeans(xs, 2, None)
C3_AnyOrder ==
    (pc = "done" /\ k = 2 /\ ~max_iter.some /\ result.some) =>
        \A b \in Blobs : WellSeparated(b) => Separates(result.v, b)

\* C3 amended: in exact arithmetic, when the two seeds xs[0] and xs[N/2]
\* lie in different blobs, the initial assignment tells the blobs apart, and
\* for one-dimensional data so does the clustering kmeans(xs, 2, None) returns
C3_SeedsApart ==
    (k = 2 /\ ValidArgs /\ pc = "done" /\ ~max_iter.some /\ Exact) =>
        \A b \in Blobs :
            (SeedsApart(b) /\ WellSeparated(b)) =>
                /\ Separates(hist[1], b)
                /\ Len(xs[1]) = 1 => result.some /\ Separates(result.v, b)

C3_Witness ==
    /\ pc = "done" /\ k = 2 /\ ~max_iter.some /\ N = 4 /\ Len(xs[1]) = 1
    /\ \E b \in Blobs :
          /\ WellSeparated(b) /\ SeedsApart(b)
          /\ Cardinality({i \in 1..N : b[i] = "A"}) = 3
          /\ Separates(result.v, b)

\* the seed centroids as the specification gives them
SeedsOf == [j \in 1..k |-> xs[(j - 1) * (N \div k) + 1]]

\* C4: with max_iter = Some(0) no centroid is recomputed and the result is
\* the nearest-centroid assignment against the seeds xs[j * (N / k)]
C4_ZeroIterations ==
    (ValidArgs /\ max_iter.some /\ max_iter.v = 0 /\ Running) =>
        /\ n_recompute = 0
        /\ Bodies = 0
        /\ clustering = nearest_centroids(xs, SeedsOf)
        /\ pc = "done" => result = Some(nearest_centroids(xs, SeedsOf))

C4_Witness ==
    /\ pc = "done" /\ max_iter.some /\ max_iter.v = 0 /\ k >= 2
    /\ result.some /\ ~FixedPoint(result.v)

\* C5: with max_iter = Some(m) the loop body runs at most m times, each time
\* one recompute_centroids and one nearest_centroids; a call that never saw
\* the clustering unchanged returns the clustering adopted in iteration m
C5_BoundedIterations ==
    (ValidArgs /\ max_iter.some /\ Running) =>
        /\ Bodies <= max_iter.v
        /\ n_recompute = Bodies
        /\ (pc = "done" /\ \A i \in 1..Bodies : hist[i + 1] # hist[i]) =>
              /\ Bodies = max_iter.v
              /\ result = Some(hist[max_iter.v + 1])

C5_Witness ==
    /\ pc = "done" /\ max_iter.some /\ max_iter.v >= 1
    /\ Bodies = max_iter.v
    /\ \A i \in 1..Bodies : hist[i + 1] # hist[i]
    /\ result.some /\ ~FixedPoint(result.v)

\* C6: a call that stops on the convergence check (every returning call with
\* max_iter = None) returns a fixed point of one further iteration
C6_ConvergedIsFixedPoint ==
    /\ StoppedByConvergence => FixedPoint(result.v)
    /\ (pc = "done" /\ ValidArgs /\ ~max_iter.some) => StoppedByConvergence

C6_Witness ==
    /\ StoppedByConvergence /\ ~max_iter.some /\ count_iter >= 1
    /\ FixedPoint(result.v)

\* distance from point i to the centroid of cluster id j, for the centroids
\* the latest call of nearest_centroids was given
DistTo(i, j) == distance(xs[i], centroids[j + 1])

\* the clustering the latest call of nearest_centroids returned
Latest == hist[Len(hist)]

\* C7: nearest_centroids gives every point the smallest index among the
\* centroids at minimum squared distance
C7_FirstMinimumWins ==
    (ValidArgs /\ Running) =>
        \A i \in 1..N :
            /\ ~IsNaN(DistTo(i, Latest[i]))
            /\ \A j \in ClusterIds :
                  /\ ~FLt(DistTo(i, j), DistTo(i, Latest[i]))
                  /\ j < Latest[i] => DistTo(i, j) # DistTo(i, Latest[i])

\* the sum of the coordinate j of the points whose indices are in S
RECURSIVE CoordSum(_, _)
CoordSum(S, j) ==
    IF S = {} THEN Zero
    ELSE LET i == CHOOSE i \in S : TRUE
         IN  FAdd(xs[i][j], CoordSum(S \ {i}, j))

\* the mean of the points c assigns to cluster id
MeanOf(c, id) ==
    [j \in 1..Len(xs[1]) |->
        FDiv(CoordSum(Members(c, id), j), Lit(Cardinality(Members(c, id))))]

RECURSIVE CostFrom(_, _)
CostFrom(c, i) ==
    IF i > Len(c) THEN Zero
    ELSE FAdd(distance(xs[i], MeanOf(c, c[i])), CostFrom(c, i + 1))

\* total within-cluster squared distance of the clustering c
Cost(c) == CostFrom(c, 1)

\* C8: the within-cluster squared distance of the new clustering of an
\* iteration is at most that of the clustering held before it, in exact
\* arithmetic
C8_CostNeverIncreases ==
    (ValidArgs /\ Running /\ Exact) =>
        \A i \in 1..Bodies :
            /\ IsFinite(Cost(hist[i])) /\ IsFinite(Cost(hist[i + 1]))
            /\ ~FLt(Cost(hist[i]), Cost(hist[i + 1]))

C8_Witness ==
    /\ Running /\ Exact /\ Bodies >= 2
    /\ \A i \in 1..2 : FLt(Cost(hist[i + 1]), Cost(hist[i]))

\* C9: with max_iter = None and exact arithmetic a call on valid arguments
\* terminates: the clusterings it computes never repeat until the
\* convergence check succeeds, the loop body can always run until then, and
\* the call returns out of the convergence check
C9_TerminatesWithoutCycle ==
    (ValidArgs /\ ~max_iter.some /\ Running /\ Exact) =>
        /\ \A i, j \in 1..Len(hist) :
              (i < j /\ hist[i] = hist[j]) =>
                  pc = "done" /\ i = Len(hist) - 1 /\ j = Len(hist)
        /\ pc = "loop" => count_iter < IterCap /\ hist[Len(hist)] = clustering
        /\ pc = "done" => StoppedByConvergence

C9_Witness ==
    /\ StoppedByConvergence /\ ~max_iter.some /\ Exact /\ count_iter >= 1
    /\ \E i, j \in 1..N : i # j /\ xs[i] = xs[j]
    /\ \E c \in ClusterIds : Empty(result.v, c)

\* C10: on finite data a cluster that is empty in one clustering gets a
\* not-a-number centroid in the next iteration, the call goes on, and the
\* cluster is empty in every later clustering and in the returned one
C10_EmptyStaysEmpty ==
    (ValidArgs /\ pc \notin {"idle", "start"}) =>
        /\ Running
        /\ \A c \in ClusterIds : \A i \in 1..Len(hist) :
              Empty(hist[i], c) =>
                  /\ \A j \in i..Len(hist) : Empty(hist[j], c)
                  /\ Empty(clustering, c)
                  /\ (i = Len(hist) - 1) => AllNaN(centroids[c + 1])
                  /\ result.some => Empty(result.v, c)

====
